---------------------------- MODULE Spec2Model ----------------------------
(***************************************************************************)
(* Model of the portfolio rebalance tracker                                *)
(* (src/src/components/rebalance-tracker.tsx).                             *)
(*                                                                         *)
(* The specifications share the component's state:                         *)
(*   Spec       one calculation pass (the computedAssets memo, which calls *)
(*              optimizeTradeShares) over a form state drawn from bounded  *)
(*              sets; the greedy loop advances one iteration per step.     *)
(*   LiveSpec   Spec with the pass running to its end (weak fairness).     *)
(*   StoreSpec  the component's life from mount: the load effect, the two  *)
(*              save effects, re-renders and the user's edits, against     *)
(*              localStorage.                                              *)
(*                                                                         *)
(* JavaScript numbers are modelled as exact rationals [num, den] (lowest   *)
(* terms, den > 0): the model has no rounding error, no NaN and no         *)
(* Infinity.  Form fields hold what <input type="number"> hands over: the  *)
(* empty text or the text of a number, here optionally signed whole        *)
(* numbers, written as tuples of characters.                               *)
(***************************************************************************)
EXTENDS Integers, Sequences, FiniteSets, TLC

VARIABLES
  assets,            \* useState<Asset[]>: index -> [code, target, shares, price]
  additionalFunds,   \* useState<string>
  isLoaded,          \* useState(false)
  storage,           \* localStorage: [assets, funds], the two keys' values
  rendered,          \* the state the last render saw (what its effects close over)
  effects,           \* effects of the last render still to run, in order
  dirty,             \* state hooks set since the last render
  edits,             \* number of input events so far
  pc,                \* position in the calculation pass
  basicComputed,     \* step 1 of computedAssets
  adjustedShares,    \* optimizeTradeShares: adjustedShares
  deviation,         \* optimizeTradeShares: deviation
  iter,              \* optimizeTradeShares: iter
  best,              \* optimizeTradeShares: bestImprovement, bestIndex, bestDirection
  computedAssets     \* step 3 of computedAssets

vars == <<assets, additionalFunds, isLoaded, storage, rendered, effects, dirty,
          edits, pc, basicComputed, adjustedShares, deviation, iter, best,
          computedAssets>>

storeVars == <<isLoaded, storage, rendered, effects, dirty, edits>>
calcVars == <<pc, basicComputed, adjustedShares, deviation, iter, best, computedAssets>>

---------------------------------------------------------------------------
(* Bounds of the model *)

\* at most this many table rows have a non-empty shares or price field
MaxFilled == 2

\* at most this many input events after the form is shown
MaxEdits == 1

---------------------------------------------------------------------------
(* Numbers *)

\* Numbers are rationals in lowest terms.  Each operation binds its operands
\* through a one-element set, so that TLC evaluates an operand once however
\* often the body uses it.
The(S) == CHOOSE x \in S : TRUE

AbsInt(a) == IF a < 0 THEN -a ELSE a

RECURSIVE GCD(_, _)
GCD(a, b) == The({ IF y = 0 THEN x ELSE GCD(y, x % y) : x \in {a}, y \in {b} })

\* the number n/d, d # 0
Rat(n, d) ==
  IF d = 1 THEN [num |-> n, den |-> 1]
  ELSE The({ [num |-> (IF d < 0 THEN -n ELSE n) \div g, den |-> AbsInt(d) \div g] :
               g \in {GCD(AbsInt(n), AbsInt(d))} })

Zero == [num |-> 0, den |-> 1]
Int2Rat(n) == [num |-> n, den |-> 1]
RatAdd(a, b) ==
  The({ Rat(x.num * y.den + y.num * x.den, x.den * y.den) : x \in {a}, y \in {b} })
RatSub(a, b) ==
  The({ Rat(x.num * y.den - y.num * x.den, x.den * y.den) : x \in {a}, y \in {b} })
RatMul(a, b) == The({ Rat(x.num * y.num, x.den * y.den) : x \in {a}, y \in {b} })
\* a / b, b # 0
RatDiv(a, b) == The({ Rat(x.num * y.den, x.den * y.num) : x \in {a}, y \in {b} })
RatLt(a, b) == \E x \in {a}, y \in {b} : x.num * y.den < y.num * x.den
RatLe(a, b) == \E x \in {a}, y \in {b} : x.num * y.den <= y.num * x.den
\* Math.abs
MathAbs(a) == The({ [num |-> AbsInt(x.num), den |-> x.den] : x \in {a} })
\* Math.round: the nearest integer, a half going up (towards +Infinity)
MathRound(a) == The({ (2 * x.num + x.den) \div (2 * x.den) : x \in {a} })

---------------------------------------------------------------------------
(* Texts of the form fields *)

DigitValue(c) ==
  CASE c = "0" -> 0 [] c = "1" -> 1 [] c = "2" -> 2 [] c = "3" -> 3 [] c = "4" -> 4
    [] c = "5" -> 5 [] c = "6" -> 6 [] c = "7" -> 7 [] c = "8" -> 8 [] c = "9" -> 9

RECURSIVE ParseDigits(_, _)
ParseDigits(s, acc) ==
  The({ IF t = <<>> THEN a ELSE ParseDigits(Tail(t), a * 10 + DigitValue(Head(t))) :
        t \in {s}, a \in {acc} })

\* parseFloat on the text of a whole number
parseFloat(s) ==
  IF Head(s) = "-" THEN Int2Rat(-ParseDigits(Tail(s), 0)) ELSE Int2Rat(ParseDigits(s, 0))

\* parseFloat(text || '0')
Number(text) == parseFloat(IF text = <<>> THEN <<"0">> ELSE text)

ShareTexts == { <<>>, <<"1", "0", "0">> }
PriceTexts == { <<>>, <<"-", "5">>, <<"1">>, <<"5">>, <<"1", "0", "0">> }
FundsTexts == { <<>>, <<"2", "0", "0", "0", "0">> }

---------------------------------------------------------------------------
(* The tracked assets *)

initialAssets ==
  LET t == << [code |-> "159632", target |-> 25],
              [code |-> "510880", target |-> 30],
              [code |-> "511260", target |-> 20],
              [code |-> "511380", target |-> 15],
              [code |-> "518880", target |-> 10] >>
  IN  [i \in 0 .. Len(t) - 1 |-> t[i + 1]]

Indices == DOMAIN initialAssets
n == Cardinality(Indices)

\* initialAssets.map(a => ({ ...a, shares: '', price: '' }))
BlankAssets ==
  [i \in Indices |-> [code |-> initialAssets[i].code, target |-> initialAssets[i].target,
                      shares |-> <<>>, price |-> <<>>]]

RECURSIVE SumTo(_, _)
\* f[0] + ... + f[k], reduce from 0
SumTo(f, k) == IF k < 0 THEN Zero ELSE RatAdd(SumTo(f, k - 1), f[k])
Sum(f) == The({ SumTo(g, n - 1) : g \in {f} })

---------------------------------------------------------------------------
(* The calculation pass *)

currentTotal ==
  Sum([i \in Indices |-> RatMul(Number(assets[i].shares), Number(assets[i].price))])

\* mutant: the added funds are left out
targetTotalWithoutFunds == currentTotal

targetTotal == RatAdd(currentTotal, Number(additionalFunds))

basicComputedOf ==
  LET total == currentTotal
      target == targetTotal
  IN  [i \in Indices |->
        LET a == assets[i]
            shares == Number(a.shares)
            price == Number(a.price)
            marketValue == RatMul(shares, price)
            currentWeight == IF RatLt(Zero, total)
                               THEN RatMul(RatDiv(marketValue, total), Int2Rat(100))
                               ELSE Zero
            delta == RatSub(currentWeight, Int2Rat(a.target))
            targetMarketValue == RatMul(Rat(a.target, 100), target)
            tradeAmount == RatSub(targetMarketValue, marketValue)
            tradeShares == IF RatLt(Zero, price) THEN RatDiv(tradeAmount, price) ELSE Zero
        IN  [code |-> a.code, target |-> a.target, shares |-> a.shares, price |-> a.price,
             marketValue |-> marketValue, weight |-> currentWeight, delta |-> delta,
             tradeShares |-> tradeShares, tradeAmount |-> tradeAmount]]

\* mutant: the quotient's rounding is not scaled back to lots
roundToHundredUnscaled(shares) == MathRound(RatDiv(shares, Int2Rat(100))) * 10

\* Math.round(shares / 100) * 100
roundToHundred(shares) == MathRound(RatDiv(shares, Int2Rat(100))) * 100

\* computedAssets.map(a => parseFloat(a.price || '0'))[i]
prices(bc, i) == Number(bc[i].price)
\* computedAssets.map(a => a.tradeShares)[i]
idealShares(bc, i) == bc[i].tradeShares

\* idealShares.map(roundToHundred)
SeedShares(bc) == [i \in Indices |-> roundToHundred(idealShares(bc, i))]

\* totalAdjustedAmount - idealTotalAmount
SeedDeviation(bc) ==
  LET totalAdjustedAmount ==
        Sum([i \in Indices |->
               RatMul(Int2Rat(roundToHundred(idealShares(bc, i))), prices(bc, i))])
      idealTotalAmount ==
        Sum([i \in Indices |-> RatMul(idealShares(bc, i), prices(bc, i))])
  IN  RatSub(totalAdjustedAmount, idealTotalAmount)

maxIterations == 20

\* mutant: the early return uses the loop's threshold
SmallDeviationBelow100(dev) == RatLt(MathAbs(dev), Int2Rat(100))

\* Math.abs(deviation) < 1000
SmallDeviation(dev) == RatLt(MathAbs(dev), Int2Rat(1000))

\* mutant: no cap on the iterations
LoopConditionNoCap(it, dev) == RatLt(Int2Rat(100), MathAbs(dev))

\* mutant: the loop runs only above the early-return threshold
LoopConditionAbove1000(it, dev) ==
  it < maxIterations /\ RatLt(Int2Rat(1000), MathAbs(dev))

\* iter < maxIterations && Math.abs(deviation) > 100
LoopCondition(it, dev) == it < maxIterations /\ RatLt(Int2Rat(100), MathAbs(dev))

\* mutant: no asset is skipped
NeverSkipped(price) == FALSE

\* if (prices[i] <= 0) continue
Skipped(price) == RatLe(price, Zero)

\* the body of the inner loop up to `improvement`
Improvement(bc, adj, dev, i, direction) ==
  LET newShares == adj[i] + direction * 100
      currentCost == RatMul(Int2Rat(adj[i]), prices(bc, i))
      newCost == RatMul(Int2Rat(newShares), prices(bc, i))
      costChange == RatSub(newCost, currentCost)
      newDeviation == RatAdd(dev, costChange)
  IN  RatSub(MathAbs(dev), MathAbs(newDeviation))

\* mutant: an equal improvement replaces the best
BetterOrEqual(improvement, bestImprovement) == RatLe(bestImprovement, improvement)

\* if (improvement > bestImprovement)
Better(improvement, bestImprovement) == RatLt(bestImprovement, improvement)

NoBest == [bestImprovement |-> Zero, bestIndex |-> -1, bestDirection |-> 0]

\* the body of the two nested loops for candidate k: candidate 2i is (i, -1),
\* candidate 2i+1 is (i, +1); b is the best before it, the result the best after it
Candidate(bc, adj, dev, k, b) ==
  LET i == k \div 2
      direction == IF k % 2 = 0 THEN -1 ELSE 1
  IN  IF Skipped(prices(bc, i)) THEN b
      ELSE The({ IF Better(improvement, b.bestImprovement)
                   THEN [bestImprovement |-> improvement, bestIndex |-> i,
                         bestDirection |-> direction]
                   ELSE b :
                 improvement \in {Improvement(bc, adj, dev, i, direction)} })

RECURSIVE Scan(_, _, _, _, _)
\* the two nested loops from candidate k on
Scan(bc, adj, dev, k, b) ==
  The({ IF kk >= 2 * n THEN bb
        ELSE Scan(bc, adj, dev, kk + 1, Candidate(bc, adj, dev, kk, bb)) :
        kk \in {k}, bb \in {b} })

BestMove(bc, adj, dev) == Scan(bc, adj, dev, 0, NoBest)

\* if (bestIndex >= 0 && bestImprovement > 0)
Applies(b) == b.bestIndex >= 0 /\ RatLt(Zero, b.bestImprovement)

\* mutant: the move's cost is subtracted
MovedDeviationWrongSign(bc, dev, b) ==
  RatSub(dev, RatMul(Int2Rat(b.bestDirection * 100), prices(bc, b.bestIndex)))

\* deviation += bestDirection * 100 * prices[bestIndex]
MovedDeviation(bc, dev, b) ==
  RatAdd(dev, RatMul(Int2Rat(b.bestDirection * 100), prices(bc, b.bestIndex)))

\* adjustedShares[bestIndex] += bestDirection * 100
MovedShares(adj, b) == [adj EXCEPT ![b.bestIndex] = @ + b.bestDirection * 100]

\* step 3 of computedAssets
computedAssetsOf(bc, optimizedShares) ==
  LET target == targetTotal IN
  [i \in Indices |->
    LET a == bc[i]
        adjustedTradeShares == optimizedShares[i]
        adjustedTradeAmount == RatMul(Int2Rat(adjustedTradeShares), Number(a.price))
        finalMarketValue == RatAdd(a.marketValue, adjustedTradeAmount)
        finalWeight == IF RatLt(Zero, target)
                         THEN RatMul(RatDiv(finalMarketValue, target), Int2Rat(100))
                         ELSE Zero
        finalDelta == RatSub(finalWeight, Int2Rat(a.target))
    IN  [code |-> a.code, tradeShares |-> a.tradeShares, tradeAmount |-> a.tradeAmount,
         adjustedTradeShares |-> adjustedTradeShares,
         adjustedTradeAmount |-> adjustedTradeAmount,
         finalWeight |-> finalWeight, finalDelta |-> finalDelta]]

NoResult == [i \in Indices |-> [code |-> initialAssets[i].code]]

\* step 1, then optimizeTradeShares up to the early return, which step 3 follows
ComputeEarlyReturn ==
  /\ pc = "input"
  /\ basicComputed' = basicComputedOf
  /\ adjustedShares' = SeedShares(basicComputed')
  /\ deviation' = SeedDeviation(basicComputed')
  /\ SmallDeviation(deviation')
  /\ computedAssets' = computedAssetsOf(basicComputed', adjustedShares')
  /\ pc' = "done"
  /\ UNCHANGED <<iter, best, assets, additionalFunds, storeVars>>

\* step 1, then optimizeTradeShares up to the for loop
ComputeEnterLoop ==
  /\ pc = "input"
  /\ basicComputed' = basicComputedOf
  /\ adjustedShares' = SeedShares(basicComputed')
  /\ deviation' = SeedDeviation(basicComputed')
  /\ ~SmallDeviation(deviation')
  /\ iter' = 0
  /\ pc' = "loop"
  /\ UNCHANGED <<best, computedAssets, assets, additionalFunds, storeVars>>

\* one iteration of the for loop: it applies its best move, or finds none and
\* breaks, and then the return and step 3 follow
GreedyIteration ==
  /\ pc = "loop"
  /\ LoopCondition(iter, deviation)
  /\ best' = BestMove(basicComputed, adjustedShares, deviation)
  /\ IF Applies(best')
       THEN /\ adjustedShares' = MovedShares(adjustedShares, best')
            /\ deviation' = MovedDeviation(basicComputed, deviation, best')
            /\ iter' = iter + 1
            /\ UNCHANGED <<pc, computedAssets>>
       ELSE /\ computedAssets' = computedAssetsOf(basicComputed, adjustedShares)
            /\ pc' = "done"
            /\ UNCHANGED <<adjustedShares, deviation, iter>>
  /\ UNCHANGED <<basicComputed, assets, additionalFunds, storeVars>>

\* the loop condition fails; the return and step 3 follow
LoopExit ==
  /\ pc = "loop"
  /\ ~LoopCondition(iter, deviation)
  /\ computedAssets' = computedAssetsOf(basicComputed, adjustedShares)
  /\ pc' = "done"
  /\ UNCHANGED <<adjustedShares, deviation, iter, best, basicComputed, assets,
                 additionalFunds, storeVars>>

---------------------------------------------------------------------------
(* localStorage *)

\* A key's value: absent (getItem gives null), a text, the JSON text of an
\* array of assets (items), or a text on which the load's try block throws
\* (JSON.parse rejects it, or what it parses to has no find).
NoItem == [kind |-> "null", text |-> <<>>, items |-> <<>>]
Item(text) == [kind |-> "text", text |-> text, items |-> <<>>]
Corrupt == [kind |-> "corrupt", text |-> <<>>, items |-> <<>>]

\* JSON.stringify(assets): the assets in order, each with its fields
stringify(as) ==
  [kind |-> "array", text |-> <<>>,
   items |-> [k \in 1 .. n |-> [code |-> as[k - 1].code, target |-> as[k - 1].target,
                               shares |-> as[k - 1].shares, price |-> as[k - 1].price]]]

\* parsedData.find(item => item.code === code): the first such item's position, 0 if none
find(items, code) ==
  IF \E k \in DOMAIN items : items[k].code = code
    THEN CHOOSE k \in DOMAIN items :
           items[k].code = code /\ \A j \in DOMAIN items : items[j].code = code => k <= j
    ELSE 0

\* the mergedAssets of the load effect
mergedAssets(items) ==
  [i \in Indices |->
    LET saved == find(items, initialAssets[i].code)
    IN  [code |-> initialAssets[i].code, target |-> initialAssets[i].target,
         shares |-> IF saved = 0 THEN <<>> ELSE items[saved].shares,
         price |-> IF saved = 0 THEN <<>> ELSE items[saved].price]]

---------------------------------------------------------------------------
(* The component: effects, renders and input events *)

Snapshot == [assets |-> assets, additionalFunds |-> additionalFunds, isLoaded |-> isLoaded]

\* the load effect of the mount
LoadEffect ==
  /\ effects # <<>>
  /\ Head(effects) = "load"
  /\ effects' = Tail(effects)
  /\ IF storage.assets.kind = "corrupt"
       THEN \* the catch block
            /\ isLoaded' = TRUE
            /\ dirty' = dirty \cup {"isLoaded"}
            /\ UNCHANGED <<assets, additionalFunds>>
       ELSE /\ assets' = IF storage.assets.kind = "array"
                           THEN mergedAssets(storage.assets.items)
                           ELSE assets
            /\ additionalFunds' = IF storage.funds.kind = "text" /\ storage.funds.text # <<>>
                                    THEN storage.funds.text
                                    ELSE additionalFunds
            /\ isLoaded' = TRUE
            /\ dirty' = dirty \cup {"isLoaded"}
                          \cup (IF storage.assets.kind = "array" THEN {"assets"} ELSE {})
                          \cup (IF additionalFunds' # additionalFunds
                                  THEN {"additionalFunds"} ELSE {})
  /\ UNCHANGED <<storage, rendered, edits, calcVars>>

\* mutant: the save effects do not wait for the load
SaveGuardAlways(r) == TRUE

\* if (isLoaded && typeof window !== 'undefined'), as the effect's render saw it
SaveGuard(r) == r.isLoaded

\* the effect that saves the assets
SaveAssetsEffect ==
  /\ effects # <<>>
  /\ Head(effects) = "saveAssets"
  /\ effects' = Tail(effects)
  /\ storage' = IF SaveGuard(rendered)
                  THEN [storage EXCEPT !.assets = stringify(rendered.assets)]
                  ELSE storage
  /\ UNCHANGED <<assets, additionalFunds, isLoaded, rendered, dirty, edits, calcVars>>

\* the effect that saves the added funds
SaveFundsEffect ==
  /\ effects # <<>>
  /\ Head(effects) = "saveFunds"
  /\ effects' = Tail(effects)
  /\ storage' = IF SaveGuard(rendered)
                  THEN [storage EXCEPT !.funds = Item(rendered.additionalFunds)]
                  ELSE storage
  /\ UNCHANGED <<assets, additionalFunds, isLoaded, rendered, dirty, edits, calcVars>>

\* a render after state has been set: the effects whose dependencies changed follow
Render ==
  /\ effects = <<>>
  /\ dirty # {}
  /\ rendered' = Snapshot
  /\ effects' = (IF dirty \cap {"assets", "isLoaded"} # {} THEN <<"saveAssets">> ELSE <<>>)
                \o (IF dirty \cap {"additionalFunds", "isLoaded"} # {}
                      THEN <<"saveFunds">> ELSE <<>>)
  /\ dirty' = {}
  /\ UNCHANGED <<assets, additionalFunds, isLoaded, storage, edits, calcVars>>

\* the form is on screen and idle
FormShown == rendered.isLoaded /\ effects = <<>> /\ dirty = {} /\ edits < MaxEdits

handleChange(index, field, value) ==
  /\ FormShown
  /\ assets[index][field] # value
  /\ assets' = [assets EXCEPT ![index][field] = value]
  /\ dirty' = {"assets"}
  /\ edits' = edits + 1
  /\ UNCHANGED <<additionalFunds, isLoaded, storage, rendered, effects, calcVars>>

\* onChange of the added-funds input
setAdditionalFunds(value) ==
  /\ FormShown
  /\ additionalFunds # value
  /\ additionalFunds' = value
  /\ dirty' = {"additionalFunds"}
  /\ edits' = edits + 1
  /\ UNCHANGED <<assets, isLoaded, storage, rendered, effects, calcVars>>

---------------------------------------------------------------------------
(* Spec: one calculation pass over a bounded form state *)

Filled(row) == row.shares # <<>> \/ row.price # <<>>

FormRows ==
  { f \in [Indices -> [shares : ShareTexts, price : PriceTexts]] :
      Cardinality({i \in Indices : Filled(f[i])}) <= MaxFilled }

WithRows(f) ==
  [i \in Indices |-> [code |-> initialAssets[i].code, target |-> initialAssets[i].target,
                      shares |-> f[i].shares, price |-> f[i].price]]

Init ==
  /\ assets \in {WithRows(f) : f \in FormRows}
  /\ additionalFunds \in FundsTexts
  /\ isLoaded = TRUE
  /\ storage = [assets |-> stringify(assets), funds |-> Item(additionalFunds)]
  /\ rendered = [assets |-> assets, additionalFunds |-> additionalFunds, isLoaded |-> TRUE]
  /\ effects = <<>>
  /\ dirty = {}
  /\ edits = 0
  /\ pc = "input"
  /\ basicComputed = NoResult
  /\ adjustedShares = [i \in Indices |-> 0]
  /\ deviation = Zero
  /\ iter = 0
  /\ best = NoBest
  /\ computedAssets = NoResult

Next ==
  \/ ComputeEarlyReturn
  \/ ComputeEnterLoop
  \/ GreedyIteration
  \/ LoopExit

Spec == Init /\ [][Next]_vars

\* the synchronous pass runs to its end
LiveSpec == Init /\ [][Next]_vars /\ WF_vars(Next)

---------------------------------------------------------------------------
(* Properties of the calculation pass *)

Computed == pc # "input"
PriceOf(i) == Number(assets[i].price)
Positive(x) == RatLt(Zero, x)

\* |deviation| - |deviation + direction * 100 * price[i]| in the current state
GainOf(i, direction) ==
  RatSub(MathAbs(deviation),
         MathAbs(RatAdd(deviation, RatMul(Int2Rat(direction * 100), PriceOf(i)))))

\* some move of one lot on an asset with price > 0 strictly reduces |deviation|
ImprovingMoveExists ==
  \E i \in Indices, d \in {-1, 1} : Positive(PriceOf(i)) /\ Positive(GainOf(i, d))

\* the seed's aggregate deviation, from the ideal quantities
IdealSeedDeviation ==
  Sum([i \in Indices |->
         RatMul(RatSub(Int2Rat(100 * MathRound(RatDiv(basicComputed[i].tradeShares,
                                                      Int2Rat(100)))),
                       basicComputed[i].tradeShares),
                PriceOf(i))])

SeedBelowThreshold == RatLt(MathAbs(IdealSeedDeviation), Int2Rat(1000))

\* C1: every quantity of optimizeTradeShares is an integer multiple of 100, at
\* the seed, after every move of the greedy search and in the returned result.
LotConformance ==
  \A i \in Indices :
    /\ adjustedShares[i] % 100 = 0
    /\ pc = "done" => computedAssets[i].adjustedTradeShares % 100 = 0

LotConformanceWitness ==
  /\ pc = "done"
  /\ iter >= 2
  /\ \E i \in Indices :
       /\ basicComputed[i].tradeShares.den = 1
       /\ basicComputed[i].tradeShares.num % 100 # 0
       /\ computedAssets[i].adjustedTradeShares # 0

\* C2: the greedy search never increases |deviation| from one iteration to the
\* next, and the returned |deviation| is no larger than the seed's.
MonotonicImprovement ==
  [][/\ pc = "loop" => RatLe(MathAbs(deviation'), MathAbs(deviation))
     /\ pc' = "done" => RatLe(MathAbs(deviation'), MathAbs(IdealSeedDeviation'))]_vars

MonotonicImprovementWitness ==
  /\ pc = "done"
  /\ iter >= 3
  /\ RatLt(MathAbs(deviation), MathAbs(IdealSeedDeviation))

\* C3: the pass terminates, after at most 20 iterations of the greedy search
\* (each iteration counted by iter applies one single-lot move).
TerminatesWithin20 == [](iter <= 20) /\ <>(pc = "done")

TerminatesWithin20Witness ==
  /\ pc = "done"
  /\ iter = 20
  /\ RatLt(Int2Rat(100), MathAbs(deviation))
  /\ ImprovingMoveExists

\* round half away from zero
HalfAwayFromZero(q) ==
  IF q.num >= 0 THEN (2 * q.num + q.den) \div (2 * q.den)
  ELSE -((2 * (-q.num) + q.den) \div (2 * q.den))

\* C4: the seed of each asset is its ideal quantity rounded to the nearest
\* multiple of 100, an exact half going away from zero (150 to 200, -150 to -200).
SeedRoundsHalfAwayFromZero ==
  (Computed /\ iter = 0) =>
    \A i \in Indices :
      adjustedShares[i] =
        100 * HalfAwayFromZero(RatDiv(basicComputed[i].tradeShares, Int2Rat(100)))

\* C5: an asset whose price is <= 0 has ideal quantity 0 and adjusted quantity 0,
\* at the seed, after every move and in the final result.
ImmovableAsset ==
  Computed =>
    \A i \in Indices :
      RatLe(PriceOf(i), Zero) =>
        /\ basicComputed[i].tradeShares = Zero
        /\ adjustedShares[i] = 0
        /\ pc = "done" => /\ computedAssets[i].tradeShares = Zero
                          /\ computedAssets[i].adjustedTradeShares = 0

\* the search ran and left alone an asset of negative price, with holdings,
\* whose move by one lot would have reduced |deviation|
ImmovableAssetWitness ==
  /\ pc = "done"
  /\ ~SeedBelowThreshold
  /\ \E i \in Indices :
       /\ RatLt(PriceOf(i), Zero)
       /\ assets[i].shares # <<>>
       /\ \E d \in {-1, 1} : Positive(GainOf(i, d))

\* C6: the ideal trade amounts add up to the injected cash (to 0 without any).
InjectedCashBalance ==
  /\ Computed =>
       Sum([i \in Indices |-> basicComputed[i].tradeAmount]) = Number(additionalFunds)
  /\ pc = "done" =>
       Sum([i \in Indices |-> computedAssets[i].tradeAmount]) = Number(additionalFunds)

InjectedCashBalanceWitness ==
  /\ pc = "done"
  /\ Positive(Number(additionalFunds))
  /\ Positive(currentTotal)
  /\ \E i \in Indices : RatLt(basicComputed[i].tradeAmount, Zero)

\* C7: a seed whose |deviation| is below 1000 is returned as it is, with no
\* greedy move; the greedy search is entered only when |deviation| >= 1000.
EarlyExit ==
  Computed =>
    /\ SeedBelowThreshold =>
         /\ pc = "done"
         /\ iter = 0
         /\ best = NoBest
         /\ \A i \in Indices :
              LET seed == 100 * MathRound(RatDiv(basicComputed[i].tradeShares, Int2Rat(100)))
              IN  adjustedShares[i] = seed /\ computedAssets[i].adjustedTradeShares = seed
    /\ (pc = "loop" \/ iter > 0 \/ best # NoBest) => ~SeedBelowThreshold

EarlyExitWitness ==
  /\ pc = "done"
  /\ SeedBelowThreshold
  /\ RatLt(Int2Rat(100), MathAbs(deviation))
  /\ ImprovingMoveExists

\* C8: the move an iteration applies is the (asset, direction) pair, over the
\* assets with price > 0 and the directions -1 and +1, of the largest improvement,
\* which is strictly positive; among equal improvements the lowest asset index
\* wins, and for one asset direction -1 wins over +1.
BestMoveApplied ==
  [][(pc = "loop" /\ iter' = iter + 1) =>
       LET i == best'.bestIndex
           d == best'.bestDirection
       IN  /\ i \in Indices
           /\ d \in {-1, 1}
           /\ Positive(PriceOf(i))
           /\ Positive(GainOf(i, d))
           /\ best'.bestImprovement = GainOf(i, d)
           /\ \A j \in Indices, e \in {-1, 1} :
                Positive(PriceOf(j)) =>
                  /\ RatLe(GainOf(j, e), GainOf(i, d))
                  /\ GainOf(j, e) = GainOf(i, d) => (i < j \/ (i = j /\ d <= e))
           /\ adjustedShares' = [adjustedShares EXCEPT ![i] = @ + d * 100]
           /\ deviation' = RatAdd(deviation, RatMul(Int2Rat(d * 100), PriceOf(i)))]_vars

\* a move has been applied to an asset that tied with a later one
BestMoveAppliedWitness ==
  /\ iter >= 1
  /\ \E j \in Indices :
       /\ j > best.bestIndex
       /\ PriceOf(j) = PriceOf(best.bestIndex)

\* C9: when the greedy search has stopped, |deviation| <= 100, or 20 moves have
\* been applied, or no single-lot move on an asset with price > 0 strictly
\* reduces |deviation|.
StopCondition ==
  (pc = "done" /\ ~SeedBelowThreshold) =>
    \/ RatLe(MathAbs(deviation), Int2Rat(100))
    \/ iter = 20
    \/ ~ImprovingMoveExists

\* stopped at a local optimum after some moves
StopConditionWitness ==
  /\ pc = "done"
  /\ ~SeedBelowThreshold
  /\ iter >= 1
  /\ iter < 20
  /\ RatLt(Int2Rat(100), MathAbs(deviation))
  /\ ~ImprovingMoveExists



---------------------------------------------------------------------------
(* StoreSpec: the component from its mount, over what localStorage may hold *)

StoredPriceTexts == { <<>>, <<"5">> }

\* what an earlier session saved: the first two rows may be filled
StoredRows ==
  { f \in [Indices -> [shares : ShareTexts, price : StoredPriceTexts]] :
      \A i \in Indices : i > 1 => ~Filled(f[i]) }

\* the items of a session that tracked another list: other order, one code
\* more, one code less
OtherList(items) ==
  [kind |-> "array", text |-> <<>>,
   items |-> <<[code |-> "000000", target |-> 0, shares |-> <<"1">>, price |-> <<"1">>]>>
             \o [k \in 1 .. n - 1 |-> items[n - k]]]

StoredAssets ==
  {NoItem, Corrupt}
    \cup {stringify(WithRows(f)) : f \in StoredRows}
    \cup {OtherList(stringify(WithRows(f)).items) : f \in StoredRows}

StoredFunds == {NoItem} \cup {Item(t) : t \in FundsTexts}

StoreInit ==
  /\ assets = BlankAssets
  /\ additionalFunds = <<>>
  /\ isLoaded = FALSE
  /\ storage \in [assets : StoredAssets, funds : StoredFunds]
  /\ rendered = [assets |-> BlankAssets, additionalFunds |-> <<>>, isLoaded |-> FALSE]
  /\ effects = <<"load", "saveAssets", "saveFunds">>
  /\ dirty = {}
  /\ edits = 0
  /\ pc = "input"
  /\ basicComputed = NoResult
  /\ adjustedShares = [i \in Indices |-> 0]
  /\ deviation = Zero
  /\ iter = 0
  /\ best = NoBest
  /\ computedAssets = NoResult

StoreNext ==
  \/ LoadEffect
  \/ SaveAssetsEffect
  \/ SaveFundsEffect
  \/ Render
  \/ \E index \in Indices :
       \/ \E value \in ShareTexts : handleChange(index, "shares", value)
       \/ \E value \in StoredPriceTexts : handleChange(index, "price", value)
  \/ \E value \in FundsTexts : setAdditionalFunds(value)

StoreSpec == StoreInit /\ [][StoreNext]_vars

\* the stored item of the asset at index i, 0 if none
StoredAt(i) == find(storage.assets.items, initialAssets[i].code)

\* C10: localStorage is written only after the load attempt has finished
\* (isLoaded is true); a successful load restores for each asset code the stored
\* shares and price, and a write before any edit leaves them as they were stored.
LoadBeforeSave ==
  [][/\ storage' # storage => (isLoaded /\ rendered.isLoaded)
     /\ (~isLoaded /\ isLoaded' /\ storage.assets.kind = "array") =>
          \A i \in Indices :
            StoredAt(i) # 0 =>
              /\ assets'[i].shares = storage.assets.items[StoredAt(i)].shares
              /\ assets'[i].price = storage.assets.items[StoredAt(i)].price
     /\ (edits' = 0 /\ storage.assets.kind = "array") =>
          /\ storage'.assets.kind = "array"
          /\ \A i \in Indices :
               StoredAt(i) # 0 =>
                 LET k == find(storage'.assets.items, initialAssets[i].code)
                 IN  /\ k # 0
                     /\ storage'.assets.items[k].shares
                          = storage.assets.items[StoredAt(i)].shares
                     /\ storage'.assets.items[k].price
                          = storage.assets.items[StoredAt(i)].price]_vars

\* the load has restored holdings, a price and funds, and the saves that the
\* post-load render schedules have run
LoadBeforeSaveWitness ==
  /\ edits = 0
  /\ rendered.isLoaded
  /\ effects = <<>>
  /\ dirty = {}
  /\ \E i \in Indices : assets[i].shares # <<>> /\ assets[i].price # <<>>
  /\ additionalFunds # <<>>
  /\ storage = [assets |-> stringify(assets), funds |-> Item(additionalFunds)]

=============================================================================
